---- MODULE Spec2Model ----
(***************************************************************************)
(* Orbit Signals: the scoring library (signals/math.py), the cluster       *)
(* finder, and the Signal/Pod lifecycle (signals/service.py over           *)
(* signals/models.py) run by concurrent request handlers against one       *)
(* shared document store.                                                  *)
(*                                                                         *)
(* Scores are fixed-point integers in units of 1/10000 (the code rounds    *)
(* every score to 4 decimals); slider values are tenths (0..10).           *)
(* Time is counted in days.                                                *)
(***************************************************************************)
EXTENDS Integers, Sequences, FiniteSets, TLC

\* ------------------------------------------------------------------ bounds

\* Number of requests served in one behaviour of SpecReveal.
MaxServed == 3
\* Number of user ids a pool handed to find_signal_cluster draws its keys from.
MaxPoolSize == 4
\* Number of Signal records the store may hold.
MaxSignals == 2
\* Number of Pod records the store may hold.
MaxPods == 2
\* Number of requests the handlers serve in one behaviour.
MaxCalls == 5
\* The days on which the clock is read: a step runs on day 0, on day 4 (within
\* the life of what was created on day 0), or on day 8 (after it).
ClockDays == {0, 4, 8}

\* ------------------------------------------------------- program constants

SIGNAL_TTL_DAYS == 7
POD_TTL_DAYS == 7
\* min_score=0.7 and cluster_size=4, the defaults of find_signal_cluster.
MIN_SCORE == 7000
CLUSTER_SIZE == 4
\* 1.0 in score units.
ONE == 10000
\* The neutral slider value 0.5, in tenths.
NEUTRAL == 5

PERSONALITY_KEYS == <<"introvert_extrovert", "spontaneous_planner", "active_relaxed">>

VIBE_CHECK_KEYS ==
    <<"introvert_extrovert", "spontaneous_planner", "active_relaxed",
      "adventurous_cautious", "expressive_reserved", "independent_collaborative",
      "sensing_intuition", "thinking_feeling">>

MBTI_TYPES ==
    {"ISTJ", "ISFJ", "INFJ", "INTJ", "ISTP", "ISFP", "INFP", "INTP",
     "ESTP", "ESFP", "ENFP", "ENTP", "ESTJ", "ESFJ", "ENFJ", "ENTJ"}

MBTI_BEST_FRIENDS ==
    [t \in MBTI_TYPES |->
        CASE t = "ISTJ" -> {"ISTJ", "INTP"}
          [] t = "ISFJ" -> {"ISFJ", "INFP"}
          [] t = "INFJ" -> {"INFJ", "ENFP"}
          [] t = "INTJ" -> {"INTJ", "INTP"}
          [] t = "ISTP" -> {"ISTP", "ISFP"}
          [] t = "ISFP" -> {"ISFP", "ISTP"}
          [] t = "INFP" -> {"INFP", "ISFJ"}
          [] t = "INTP" -> {"INTP", "ISTJ"}
          [] t = "ESTP" -> {"ESTP", "ESFP"}
          [] t = "ESFP" -> {"ESFP", "ESTP"}
          [] t = "ENFP" -> {"ENFP", "INFJ"}
          [] t = "ENTP" -> {"ENTP", "INTP"}
          [] t = "ESTJ" -> {"ESTJ", "ISTJ"}
          [] t = "ESFJ" -> {"ESFJ", "ISFJ"}
          [] t = "ENFJ" -> {"ENFJ", "ENFP"}
          [] t = "ENTJ" -> {"ENTJ", "INTJ"}]

\* ------------------------------------------------------------------ state

VARIABLES
    signals,    \* the Signal kind: a sequence of records, a Signal's id its index
    pods,       \* the Pod kind: a sequence of records, a Pod's id its index
    now,        \* datetime.utcnow(), in days
    proc,       \* per handler: where it is in its call, and the call's locals
    res,        \* the (data, error) the last step returned, if it returned from a call
    contacts,   \* the ContactInfo kind: per user the entity, or None (the empty sequence)
    fsc,        \* a call of find_signal_cluster on its own: arguments and result
    scored,     \* a call of the scoring functions on their own: arguments and results
    acked,      \* per Signal id: the users an accept_signal call has answered without error before expires_at
    calls       \* requests received so far

vars == <<signals, pods, contacts, fsc, scored, now, proc, res, acked, calls>>

\* ---------------------------------------------------------------- helpers

\* A Python dict (or None) is a function; None and {} are both the empty
\* function, and both are falsy in every test the code makes on them.
NoneDict == <<>>
Truthy(d) == DOMAIN d # {}
\* dict.get(key, default)
Get(d, key, default) == IF key \in DOMAIN d THEN d[key] ELSE default

Range(s) == {s[i] : i \in DOMAIN s}

RECURSIVE SumSeq(_)
SumSeq(s) == IF s = <<>> THEN 0 ELSE Head(s) + SumSeq(Tail(s))

\* Nearest integer to num/den (den > 0, num >= 0).
RoundDiv(num, den) == (2 * num + den) \div (2 * den)

\* Nearest integer to sqrt(num/den): the r with (2r-1)^2 den <= 4 num < (2r+1)^2 den.
RECURSIVE RoundSqrtFrom(_, _, _, _)
RoundSqrtFrom(lo, hi, num, den) ==
    IF lo >= hi THEN lo
    ELSE LET mid == (lo + hi) \div 2
         IN IF (2 * mid + 1) * (2 * mid + 1) * den > 4 * num
            THEN RoundSqrtFrom(lo, mid, num, den)
            ELSE RoundSqrtFrom(mid + 1, hi, num, den)
RoundSqrt(num, den) == RoundSqrtFrom(0, ONE, num, den)

\* ---------------------------------------------------------------- scoring

\* Jaccard similarity as the pair <<|A & B|, |A | B|>>; <<0, 1>> (= 0.0) when
\* both are empty.
interest_score(interests_a, interests_b) ==
    LET union == interests_a \cup interests_b
    IN IF union = {} THEN <<0, 1>>
       ELSE <<Cardinality(interests_a \cap interests_b), Cardinality(union)>>

\* Sum over keys of the squared slider difference, in hundredths.
SquaredSum(keys, a, b) ==
    SumSeq([i \in DOMAIN keys |->
        LET d == Get(a, keys[i], NEUTRAL) - Get(b, keys[i], NEUTRAL) IN d * d])

\* round(1 - sqrt(squared_sum) / sqrt(3), 4)
vibe_score(personality_a, personality_b) ==
    IF ~Truthy(personality_a) \/ ~Truthy(personality_b) THEN 0
    ELSE ONE - RoundSqrt(SquaredSum(PERSONALITY_KEYS, personality_a, personality_b) * 1000000,
                         Len(PERSONALITY_KEYS))

\* round(1 - sqrt(squared_sum) / sqrt(8), 4)
vibe_check_score(vc_a, vc_b) ==
    IF ~Truthy(vc_a) \/ ~Truthy(vc_b) THEN 0
    ELSE ONE - RoundSqrt(SquaredSum(VIBE_CHECK_KEYS, vc_a, vc_b)
                             * (1000000 \div Len(VIBE_CHECK_KEYS)), 1)

\* str.upper() on the type codes the model uses.
Upper(t) ==
    CASE t = "enfp" -> "ENFP"
      [] t = "infj" -> "INFJ"
      [] t = "xxxx" -> "XXXX"
      [] OTHER -> t

\* mbti_compatibility_bonus that looks in the first type's list alone.
mbti_compatibility_bonus_one_sided(mbti_a, mbti_b) ==
    IF mbti_a = "" \/ mbti_b = "" THEN 0
    ELSE LET a == Upper(mbti_a)
             b == Upper(mbti_b)
             a_friends == Get(MBTI_BEST_FRIENDS, a, {})
         IN IF b \in a_friends THEN 1000
            ELSE IF a = b THEN 500
            ELSE 0

\* mbti_compatibility_bonus without the upper-casing.
mbti_compatibility_bonus_case_sensitive(mbti_a, mbti_b) ==
    IF mbti_a = "" \/ mbti_b = "" THEN 0
    ELSE LET a_friends == Get(MBTI_BEST_FRIENDS, mbti_a, {})
             b_friends == Get(MBTI_BEST_FRIENDS, mbti_b, {})
         IN IF mbti_b \in a_friends \/ mbti_a \in b_friends THEN 1000
            ELSE IF mbti_a = mbti_b THEN 500
            ELSE 0

\* "" stands for an absent (None) or empty type.
mbti_compatibility_bonus(mbti_a, mbti_b) ==
    IF mbti_a = "" \/ mbti_b = "" THEN 0
    ELSE LET a == Upper(mbti_a)
             b == Upper(mbti_b)
             a_friends == Get(MBTI_BEST_FRIENDS, a, {})
             b_friends == Get(MBTI_BEST_FRIENDS, b, {})
         IN IF b \in a_friends \/ a \in b_friends THEN 1000
            ELSE IF a = b THEN 500
            ELSE 0

\* weighted_match_score that takes the quiz data whenever profile_a has it.
weighted_match_score_first_has_quiz(profile_a, profile_b) ==
    LET i_score == interest_score(profile_a.interests, profile_b.interests)
        vc_a == profile_a.vibe_check
        vc_b == profile_b.vibe_check
        both == Truthy(vc_a)
        v_score == IF both THEN vibe_check_score(vc_a, vc_b)
                   ELSE vibe_score(profile_a.personality, profile_b.personality)
        bonus == IF both
                 THEN mbti_compatibility_bonus(Get(vc_a, "mbti_type", ""),
                                               Get(vc_b, "mbti_type", ""))
                 ELSE 0
        raw10d == 40000 * i_score[1] + 6 * v_score * i_score[2] + 10 * bonus * i_score[2]
    IN LET raw == RoundDiv(raw10d, 10 * i_score[2])
       IN IF raw > ONE THEN ONE ELSE raw

\* weighted_match_score without min(1.0, raw).
weighted_match_score_uncapped(profile_a, profile_b) ==
    LET i_score == interest_score(profile_a.interests, profile_b.interests)
        vc_a == profile_a.vibe_check
        vc_b == profile_b.vibe_check
        both == Truthy(vc_a) /\ Truthy(vc_b)
        v_score == IF both THEN vibe_check_score(vc_a, vc_b)
                   ELSE vibe_score(profile_a.personality, profile_b.personality)
        bonus == IF both
                 THEN mbti_compatibility_bonus(Get(vc_a, "mbti_type", ""),
                                               Get(vc_b, "mbti_type", ""))
                 ELSE 0
        raw10d == 40000 * i_score[1] + 6 * v_score * i_score[2] + 10 * bonus * i_score[2]
    IN RoundDiv(raw10d, 10 * i_score[2])

\* round(min(1.0, 0.40 * i + 0.60 * v + bonus), 4)
weighted_match_score(profile_a, profile_b) ==
    LET i_score == interest_score(profile_a.interests, profile_b.interests)
        vc_a == profile_a.vibe_check
        vc_b == profile_b.vibe_check
        both == Truthy(vc_a) /\ Truthy(vc_b)
        v_score == IF both THEN vibe_check_score(vc_a, vc_b)
                   ELSE vibe_score(profile_a.personality, profile_b.personality)
        bonus == IF both
                 THEN mbti_compatibility_bonus(Get(vc_a, "mbti_type", ""),
                                               Get(vc_b, "mbti_type", ""))
                 ELSE 0
        \* raw * 10 * i_score[2], an integer
        raw10d == 40000 * i_score[1] + 6 * v_score * i_score[2] + 10 * bonus * i_score[2]
        raw == RoundDiv(raw10d, 10 * i_score[2])
    IN IF raw > ONE THEN ONE ELSE raw

\* --------------------------------------------------------- cluster finder

\* list.sort(key=score, reverse=True): stable, so equal scores keep their order.
RECURSIVE InsertDesc(_, _, _)
InsertDesc(sorted, uid, score) ==
    IF sorted = <<>> THEN <<uid>>
    ELSE IF score[Head(sorted)] >= score[uid]
         THEN <<Head(sorted)>> \o InsertDesc(Tail(sorted), uid, score)
         ELSE <<uid>> \o sorted

RECURSIVE SortDesc(_, _)
SortDesc(uids, score) ==
    IF uids = <<>> THEN <<>>
    ELSE InsertDesc(SortDesc(SubSeq(uids, 1, Len(uids) - 1), score), uids[Len(uids)], score)

\* sum(scores[(cid, m)] for m in cluster)
SumToCluster(cid, cluster, profiles) ==
    SumSeq([i \in DOMAIN cluster |->
        weighted_match_score(profiles[cid], profiles[cluster[i]])])

\* BestCandidate over a set whose iteration order changes from one run to the
\* next (as the order of a set of str keys does with the hash seed).
BestCandidateByRun(remaining, cluster, profiles) ==
    CHOOSE c \in remaining :
        \A o \in remaining :
            \/ SumToCluster(c, cluster, profiles) > SumToCluster(o, cluster, profiles)
            \/ /\ SumToCluster(c, cluster, profiles) = SumToCluster(o, cluster, profiles)
               /\ IF fsc.pc = "done" THEN c >= o ELSE c <= o

\* BestCandidate that takes the first of `remaining` whatever its average.
BestCandidateFirst(remaining, cluster, profiles) ==
    CHOOSE c \in remaining : \A o \in remaining : c <= o

\* The loop over `remaining` keeps the first candidate with the strictly
\* highest average; a set of small ints iterates in ascending order.
BestCandidate(remaining, cluster, profiles) ==
    CHOOSE c \in remaining :
        \A o \in remaining :
            \/ SumToCluster(c, cluster, profiles) > SumToCluster(o, cluster, profiles)
            \/ /\ SumToCluster(c, cluster, profiles) = SumToCluster(o, cluster, profiles)
               /\ c <= o

\* The averages that are min_score exactly and come out below it in double
\* arithmetic, among the scores the profiles of this module have:
\* (0.7 + 0.7 + 0.7) / 3 = 0.6999999999999998.
RoundedBelow == {<<<<7000, 7000, 7000>>, 7000>>}

\* sum(scores) / len(scores) < min_score, in doubles. The scores are
\* multiples of 0.0001, so the doubles compare as the exact values do unless
\* the exact average is min_score.
AvgBelow(scores, min_score) ==
    IF SumSeq(scores) # min_score * Len(scores)
    THEN SumSeq(scores) < min_score * Len(scores)
    ELSE <<scores, min_score>> \in RoundedBelow

\* The scores of cid to the members of the cluster, in the cluster's order.
ScoresToCluster(cid, cluster, profiles) ==
    [i \in DOMAIN cluster |-> weighted_match_score(profiles[cid], profiles[cluster[i]])]

\* Expand without the limit of cluster_size.
RECURSIVE ExpandWhileRemaining(_, _, _, _, _)
ExpandWhileRemaining(cluster, remaining, profiles, min_score, cluster_size) ==
    IF remaining = {} THEN cluster
    ELSE LET best == BestCandidate(remaining, cluster, profiles)
         IN IF AvgBelow(ScoresToCluster(best, cluster, profiles), min_score)
            THEN cluster
            ELSE ExpandWhileRemaining(Append(cluster, best), remaining \ {best},
                                      profiles, min_score, cluster_size)

\* Expand without the test of the best average against min_score.
RECURSIVE ExpandAnyAverage(_, _, _, _, _)
ExpandAnyAverage(cluster, remaining, profiles, min_score, cluster_size) ==
    IF ~(Len(cluster) < cluster_size /\ remaining # {}) THEN cluster
    ELSE LET best == BestCandidate(remaining, cluster, profiles)
         IN ExpandAnyAverage(Append(cluster, best), remaining \ {best},
                             profiles, min_score, cluster_size)

\* The greedy expansion loop.
RECURSIVE Expand(_, _, _, _, _)
Expand(cluster, remaining, profiles, min_score, cluster_size) ==
    IF ~(Len(cluster) < cluster_size /\ remaining # {}) THEN cluster
    ELSE LET best == BestCandidate(remaining, cluster, profiles)
         IN IF AvgBelow(ScoresToCluster(best, cluster, profiles), min_score)
            THEN cluster
            ELSE Expand(Append(cluster, best), remaining \ {best},
                        profiles, min_score, cluster_size)

\* find_signal_cluster without the final test of three members.
find_signal_cluster_any_length(user_id, order, profiles, min_score, cluster_size) ==
    IF user_id \notin Range(order) THEN <<>>
    ELSE LET score == [uid \in Range(order) |->
                          weighted_match_score(profiles[user_id], profiles[uid])]
             qualifying == SelectSeq(order, LAMBDA uid : uid # user_id /\ score[uid] >= min_score)
             candidates == SortDesc(qualifying, score)
         IN IF candidates = <<>> THEN <<>>
            ELSE Expand(<<user_id, candidates[1]>>,
                        Range(candidates) \ {candidates[1]},
                        profiles, min_score, cluster_size)

\* find_signal_cluster that keeps every other profile as a candidate.
find_signal_cluster_unfiltered(user_id, order, profiles, min_score, cluster_size) ==
    IF user_id \notin Range(order) THEN <<>>
    ELSE LET score == [uid \in Range(order) |->
                          weighted_match_score(profiles[user_id], profiles[uid])]
             qualifying == SelectSeq(order, LAMBDA uid : uid # user_id)
             candidates == SortDesc(qualifying, score)
         IN IF candidates = <<>> THEN <<>>
            ELSE LET cluster == Expand(<<user_id, candidates[1]>>,
                                       Range(candidates) \ {candidates[1]},
                                       profiles, min_score, cluster_size)
                 IN IF Len(cluster) < 3 THEN <<>> ELSE cluster

\* order: the iteration order of the all_profiles dict; profiles: its values.
find_signal_cluster(user_id, order, profiles, min_score, cluster_size) ==
    IF user_id \notin Range(order) THEN <<>>
    ELSE LET score == [uid \in Range(order) |->
                          weighted_match_score(profiles[user_id], profiles[uid])]
             qualifying == SelectSeq(order, LAMBDA uid : uid # user_id /\ score[uid] >= min_score)
             candidates == SortDesc(qualifying, score)
         IN IF candidates = <<>> THEN <<>>
            ELSE LET cluster == Expand(<<user_id, candidates[1]>>,
                                       Range(candidates) \ {candidates[1]},
                                       profiles, min_score, cluster_size)
                 IN IF Len(cluster) < 3 THEN <<>> ELSE cluster

\* ------------------------------------------------------------ the store

\* Request handlers that may be running at once.
Procs == {1, 2}

\* The users that send requests.
Users == {1, 2, 3, 4}

\* The Profile kind of the store, which the core only reads. User 1 matches
\* users 2 and 3 (0.8667 and 0.832); users 2 and 3 do not match each other
\* (0.6987); user 4 has not completed the profile (no name).
ProfileStore ==
    [u \in Users |->
        [name |-> IF u = 4 THEN "" ELSE "User",
         interests |-> CASE u = 1 -> {"hiking", "music", "cooking"}
                         [] u = 2 -> {"music", "cooking"}
                         [] u = 3 -> {"hiking", "cooking"}
                         [] OTHER -> {"chess"},
         personality |-> [k \in Range(PERSONALITY_KEYS) |->
                             IF u = 3 /\ k = "introvert_extrovert" THEN 6 ELSE NEUTRAL],
         vibe_check |-> NoneDict]]

SignalIds == 1..MaxSignals

\* A handler's locals: targets is accept_signal's `targets`, entity the
\* entity the data layer holds between its get and its put, and after it
\* `updated`, data the `data` of update_contact_info.
Idle ==
    [pc |-> "idle", user_id |-> 0, signal_id |-> 0, targets |-> <<>>, entity |-> <<>>,
     data |-> NoneDict]

\* A returned (data, error): data None is status "none", error None is "";
\* op, user_id and body are the call and its arguments.
NoResult ==
    [op |-> "", user_id |-> 0, body |-> NoneDict, status |-> "none", error |-> "",
     signal |-> 0, pod |-> 0, revealed |-> FALSE, members |-> <<>>]

\* No call of find_signal_cluster on its own.
NoCall ==
    [pc |-> "none", user_id |-> 0, all_profiles |-> <<>>, min_score |-> 0,
     cluster_size |-> 0, cluster |-> <<>>, again |-> <<>>]

\* No call of the scoring functions on their own. An argument that may be
\* None is the empty sequence for None and <<d>> for the dict d.
NoProfile == [interests |-> {}, personality |-> <<>>, vibe_check |-> <<>>]
NoScore ==
    [pc |-> "none", profile_a |-> NoProfile, profile_b |-> NoProfile,
     mbti_a |-> "", mbti_b |-> "", out |-> <<>>]

\* get_profile: the Profile entity, or None (the empty sequence).
get_profile(user_id) ==
    IF user_id \in DOMAIN ProfileStore THEN <<ProfileStore[user_id]>> ELSE <<>>

\* _is_expired with the comparison turned round.
_is_expired_before(entity, clock) == clock < entity.expires_at

\* get_contact_info: the ContactInfo entity, or None.
get_contact_info(user_id) == contacts[user_id]

\* _get_member_profiles that adds contact_info whatever include_contact says.
_get_member_profiles_with_contact(user_ids, include_contact) ==
    [i \in DOMAIN user_ids |->
        LET profile == get_profile(user_ids[i])
        IN [user_id |-> user_ids[i],
            name |-> IF profile # <<>> THEN profile[1].name ELSE "",
            interests |-> IF profile # <<>> THEN profile[1].interests ELSE {},
            contact_info |-> get_contact_info(user_ids[i])]]

\* The member previews: user_id, name and interests, and contact_info (the
\* entity or None) only if include_contact.
_get_member_profiles(user_ids, include_contact) ==
    [i \in DOMAIN user_ids |->
        LET profile == get_profile(user_ids[i])
            name == IF profile # <<>> THEN profile[1].name ELSE ""
            interests == IF profile # <<>> THEN profile[1].interests ELSE {}
        IN IF include_contact
           THEN [user_id |-> user_ids[i], name |-> name, interests |-> interests,
                 contact_info |-> get_contact_info(user_ids[i])]
           ELSE [user_id |-> user_ids[i], name |-> name, interests |-> interests]]

\* The entity is expired once the clock has passed its expires_at.
_is_expired(entity, clock) == clock > entity.expires_at

\* The profiles with a name, in the order the query yields them (by key).
RECURSIVE AscendingSeq(_)
AscendingSeq(S) ==
    IF S = {} THEN <<>>
    ELSE LET m == CHOOSE x \in S : \A y \in S : x <= y
         IN <<m>> \o AscendingSeq(S \ {m})

_get_available_profiles ==
    AscendingSeq({u \in DOMAIN ProfileStore : ProfileStore[u].name # ""})

\* What check_for_signal hands to create_signal for each requester; the
\* Profile kind never changes, so neither does this.
ClusterOf ==
    [u \in Users |->
        LET available == _get_available_profiles
            order == IF u \in Range(available) THEN available ELSE Append(available, u)
        IN find_signal_cluster(u, order, ProfileStore, MIN_SCORE, CLUSTER_SIZE)]

\* create_signal that records the creator's acceptance.
create_signal_accepted_by_creator(id, creator_id, target_user_ids, clock) ==
    [id |-> id,
     creator_id |-> creator_id,
     target_user_ids |-> target_user_ids,
     accepted_user_ids |-> <<creator_id>>,
     created_at |-> clock,
     expires_at |-> clock + SIGNAL_TTL_DAYS,
     status |-> "pending"]

\* The entity create_signal puts.
create_signal(id, creator_id, target_user_ids, clock) ==
    [id |-> id,
     creator_id |-> creator_id,
     target_user_ids |-> target_user_ids,
     accepted_user_ids |-> <<>>,
     created_at |-> clock,
     expires_at |-> clock + SIGNAL_TTL_DAYS,
     status |-> "pending"]

\* create_pod_from_signal with the Signal's expiry copied instead of a new TTL.
create_pod_copying_expiry(id, signal, clock) ==
    [id |-> id,
     members |-> signal.target_user_ids,
     created_at |-> clock,
     expires_at |-> signal.expires_at,
     revealed |-> FALSE,
     signal_id |-> signal.id]

\* The entity create_pod_from_signal puts.
create_pod_from_signal(id, signal, clock) ==
    [id |-> id,
     members |-> signal.target_user_ids,
     created_at |-> clock,
     expires_at |-> clock + POD_TTL_DAYS,
     revealed |-> FALSE,
     signal_id |-> signal.id]

\* query.order = ['-created_at'], fetch(limit=1): any of the newest entities
\* (entities created on the same day come back in key order, and keys are uuids).
Newest(S) == {e \in S : \A o \in S : o.created_at <= e.created_at}

\* get_active_pod: the candidates for its result.
get_active_pod(user_id) ==
    Newest({pods[i] : i \in {j \in DOMAIN pods : user_id \in Range(pods[j].members)}})

\* get_signal_for_user: the candidates for its result.
get_signal_for_user(user_id) ==
    Newest({signals[i] : i \in {j \in DOMAIN signals :
                /\ user_id \in Range(signals[j].target_user_ids)
                /\ signals[j].status = "pending"}})

\* get_signal: the entity, or None.
get_signal(signal_id) ==
    IF signal_id \in DOMAIN signals THEN <<signals[signal_id]>> ELSE <<>>

\* ------------------------------------------------------- check_for_signal

Init ==
    /\ signals = <<>>
    /\ pods = <<>>
    /\ contacts = [u \in Users |-> <<>>]
    /\ fsc = NoCall
    /\ scored = NoScore
    /\ now = 0
    /\ proc = [p \in Procs |-> Idle]
    /\ res = NoResult
    /\ acked = [s \in SignalIds |-> {}]
    /\ calls = 0

\* return None, msg
Error(op, user_id, msg) ==
    [NoResult EXCEPT !.op = op, !.user_id = user_id, !.error = msg]

\* return {'status': 'has_pod', 'pod': pod, ..., 'revealed': revealed}, None
HasPod(op, user_id, pod, revealed) ==
    [NoResult EXCEPT !.op = op, !.user_id = user_id, !.status = "has_pod",
                     !.pod = pod.id, !.signal = pod.signal_id, !.revealed = revealed,
                     !.members = _get_member_profiles(pod.members, revealed)]

\* return {'status': 'has_signal' or 'new_signal', 'signal': signal, ...}, None
HasSignal(op, user_id, status, signal) ==
    [NoResult EXCEPT !.op = op, !.user_id = user_id, !.status = status,
                     !.signal = signal.id,
                     !.members = _get_member_profiles(signal.target_user_ids, FALSE)]

\* return {'status': 'no_match'}, None
NoMatch(op, user_id) ==
    [NoResult EXCEPT !.op = op, !.user_id = user_id, !.status = "no_match"]

\* A request goes to the first free handler (the handlers are alike).
Free(p) ==
    /\ proc[p].pc = "idle"
    /\ \A q \in Procs : proc[q].pc = "idle" => p <= q

\* The handler returns `result` and is free for the next request.
Return(p, result) ==
    /\ proc' = [proc EXCEPT ![p] = Idle]
    /\ res' = result

\* The handler goes on to the step `pc` with its locals `locals`.
Goto(p, locals) ==
    /\ proc' = [proc EXCEPT ![p] = locals]
    /\ res' = NoResult

\* CheckForSignalPod that looks for a pending Signal before it looks for a Pod.
CheckForSignalPodSignalFirst(p, user_id) ==
    /\ Free(p)
    /\ calls < MaxCalls
    /\ calls' = calls + 1
    /\ LET profile == get_profile(user_id)
           op == "check_for_signal"
           next == [Idle EXCEPT !.pc = "cfs_signal", !.user_id = user_id]
           live == {g \in get_signal_for_user(user_id) : ~_is_expired(g, now)}
       IN IF profile = <<>> \/ profile[1].name = ""
          THEN Return(p, Error(op, user_id, "Complete your profile before discovering signals"))
          ELSE IF live # {}
          THEN \E g \in live : Return(p, HasSignal(op, user_id, "has_signal", g))
          ELSE IF get_active_pod(user_id) = {}
          THEN Goto(p, next)
          ELSE \E pod \in get_active_pod(user_id) :
                  IF ~_is_expired(pod, now)
                  THEN Return(p, HasPod(op, user_id, pod, pod.revealed))
                  ELSE Goto(p, next)
    /\ UNCHANGED <<scored, fsc, contacts, signals, pods, now, acked>>

\* check_for_signal up to its first store query: the profile test, then
\* get_active_pod and the has_pod outcome.
CheckForSignalPod(p, user_id) ==
    /\ Free(p)
    /\ calls < MaxCalls
    /\ calls' = calls + 1
    /\ LET profile == get_profile(user_id)
           op == "check_for_signal"
           next == [Idle EXCEPT !.pc = "cfs_signal", !.user_id = user_id]
       IN IF profile = <<>> \/ profile[1].name = ""
          THEN Return(p, Error(op, user_id, "Complete your profile before discovering signals"))
          ELSE IF get_active_pod(user_id) = {}
          THEN Goto(p, next)
          ELSE \E pod \in get_active_pod(user_id) :
                  IF ~_is_expired(pod, now)
                  THEN Return(p, HasPod(op, user_id, pod, pod.revealed))
                  ELSE Goto(p, next)
    /\ UNCHANGED <<scored, fsc, contacts, signals, pods, now, acked>>

\* get_signal_for_user and the has_signal outcome.
CheckForSignalSignal(p) ==
    /\ proc[p].pc = "cfs_signal"
    /\ LET user_id == proc[p].user_id
           next == [proc[p] EXCEPT !.pc = "cfs_cluster"]
       IN IF get_signal_for_user(user_id) = {}
          THEN Goto(p, next)
          ELSE \E signal \in get_signal_for_user(user_id) :
                  IF ~_is_expired(signal, now)
                  THEN Return(p, HasSignal("check_for_signal", user_id, "has_signal", signal))
                  ELSE Goto(p, next)
    /\ UNCHANGED <<scored, fsc, contacts, signals, pods, now, acked, calls>>

\* CheckForSignalCluster that queries the pending Signals again before it
\* creates one.
CheckForSignalClusterRecheck(p) ==
    /\ proc[p].pc = "cfs_cluster"
    /\ LET user_id == proc[p].user_id
           cluster == ClusterOf[user_id]
           live == {g \in get_signal_for_user(user_id) : ~_is_expired(g, now)}
       IN IF cluster = <<>>
          THEN /\ Return(p, NoMatch("check_for_signal", user_id))
               /\ UNCHANGED signals
          ELSE IF live # {}
          THEN /\ \E g \in live : Return(p, HasSignal("check_for_signal", user_id, "has_signal", g))
               /\ UNCHANGED signals
          ELSE /\ Len(signals) < MaxSignals
               /\ LET signal == create_signal(Len(signals) + 1, user_id, cluster, now)
                  IN /\ signals' = Append(signals, signal)
                     /\ Return(p, HasSignal("check_for_signal", user_id, "new_signal", signal))
    /\ UNCHANGED <<scored, fsc, contacts, pods, now, acked, calls>>

\* _get_available_profiles, find_signal_cluster, and the no_match outcome or
\* create_signal and the new_signal outcome.
CheckForSignalCluster(p) ==
    /\ proc[p].pc = "cfs_cluster"
    /\ LET user_id == proc[p].user_id
           cluster == ClusterOf[user_id]
       IN IF cluster = <<>>
          THEN /\ Return(p, NoMatch("check_for_signal", user_id))
               /\ UNCHANGED signals
          ELSE /\ Len(signals) < MaxSignals
               /\ LET signal == create_signal(Len(signals) + 1, user_id, cluster, now)
                  IN /\ signals' = Append(signals, signal)
                     /\ Return(p, HasSignal("check_for_signal", user_id, "new_signal", signal))
    /\ UNCHANGED <<scored, fsc, contacts, pods, now, acked, calls>>

\* ---------------------------------------------------------- accept_signal

\* AcceptError without the test that the user is a target.
AcceptErrorNoTargetTest(signal, user_id, clock) ==
    IF signal = <<>> THEN "Signal not found"
    ELSE IF _is_expired(signal[1], clock) THEN "This signal has expired"
    ELSE IF signal[1].status = "accepted"
         THEN "This signal has already been fully accepted"
    ELSE ""

\* AcceptError with the expiry test moved before the target test.
AcceptErrorExpiryFirst(signal, user_id, clock) ==
    IF signal = <<>> THEN "Signal not found"
    ELSE IF _is_expired(signal[1], clock) THEN "This signal has expired"
    ELSE IF user_id \notin Range(signal[1].target_user_ids)
         THEN "You are not part of this signal"
    ELSE IF signal[1].status = "accepted"
         THEN "This signal has already been fully accepted"
    ELSE ""

\* The tests accept_signal makes on the Signal it read, in their order:
\* the error message, or "" when the call goes on.
AcceptError(signal, user_id, clock) ==
    IF signal = <<>> THEN "Signal not found"
    ELSE IF user_id \notin Range(signal[1].target_user_ids)
         THEN "You are not part of this signal"
    ELSE IF _is_expired(signal[1], clock) THEN "This signal has expired"
    ELSE IF signal[1].status = "accepted"
         THEN "This signal has already been fully accepted"
    ELSE ""

\* AppendAccepted without the membership test.
AppendAcceptedAlways(accepted, uid) == Append(accepted, uid)

\* accepted = list(...); if uid not in accepted: accepted.append(uid)
AppendAccepted(accepted, uid) ==
    IF uid \in Range(accepted) THEN accepted ELSE Append(accepted, uid)

\* RecordAcceptance that records the user and leaves the status alone.
RecordAcceptanceKeepStatus(entity, user_id) ==
    [entity EXCEPT !.accepted_user_ids = AppendAccepted(@, user_id)]

\* accept_signal of the data layer, between its get and its put: the entity
\* with the acceptance recorded, and marked accepted if everyone accepted.
RecordAcceptance(entity, user_id) ==
    LET accepted == AppendAccepted(entity.accepted_user_ids, user_id)
    IN [entity EXCEPT
            !.accepted_user_ids = accepted,
            !.status = IF Range(entity.target_user_ids) \subseteq Range(accepted)
                       THEN "accepted" ELSE @]

\* The service's test that everyone accepted: the targets it read first
\* against the accepted list the data layer returned.
AllAccepted(targets, updated) == Range(targets) \subseteq Range(updated.accepted_user_ids)

\* A call that answers without error before the Signal's expires_at is on record.
Ack(signal, user_id) ==
    IF now <= signal.expires_at
    THEN [acked EXCEPT ![signal.id] = @ \cup {user_id}]
    ELSE acked

\* accept_signal up to its tests: get_signal and the four error outcomes.
AcceptSignalGet(p, user_id, signal_id) ==
    /\ Free(p)
    /\ calls < MaxCalls
    /\ calls' = calls + 1
    /\ LET signal == get_signal(signal_id)
           error == AcceptError(signal, user_id, now)
       IN IF error # ""
          THEN Return(p, Error("accept_signal", user_id, error))
          ELSE Goto(p, [Idle EXCEPT !.pc = "acc_db_get",
                                    !.user_id = user_id,
                                    !.signal_id = signal_id,
                                    !.targets = signal[1].target_user_ids])
    /\ UNCHANGED <<scored, fsc, contacts, signals, pods, now, acked>>

\* The data layer's client.get.
AcceptSignalDbGet(p) ==
    /\ proc[p].pc = "acc_db_get"
    /\ LET entity == get_signal(proc[p].signal_id)
       IN IF entity = <<>>
          THEN Return(p, Error("accept_signal", proc[p].user_id, "Failed to accept signal"))
          ELSE Goto(p, [proc[p] EXCEPT !.pc = "acc_db_put", !.entity = entity])
    /\ UNCHANGED <<scored, fsc, contacts, signals, pods, now, acked, calls>>

\* The data layer's client.put of the whole entity, and, unless everyone
\* accepted, the has_signal outcome.
AcceptSignalDbPut(p) ==
    /\ proc[p].pc = "acc_db_put"
    /\ LET user_id == proc[p].user_id
           updated == RecordAcceptance(proc[p].entity[1], user_id)
       IN /\ signals' = [signals EXCEPT ![updated.id] = updated]
          /\ IF AllAccepted(proc[p].targets, updated)
             THEN /\ Goto(p, [proc[p] EXCEPT !.pc = "acc_pod", !.entity = <<updated>>])
                  /\ UNCHANGED acked
             ELSE /\ Return(p, HasSignal("accept_signal", user_id, "has_signal", updated))
                  /\ acked' = Ack(updated, user_id)
    /\ UNCHANGED <<scored, fsc, contacts, pods, now, calls>>

\* create_pod_from_signal and the has_pod outcome.
AcceptSignalPod(p) ==
    /\ proc[p].pc = "acc_pod"
    /\ Len(pods) < MaxPods
    /\ LET user_id == proc[p].user_id
           pod == create_pod_from_signal(Len(pods) + 1, proc[p].entity[1], now)
       IN /\ pods' = Append(pods, pod)
          /\ Return(p, HasPod("accept_signal", user_id, pod, FALSE))
          /\ acked' = Ack(proc[p].entity[1], user_id)
    /\ UNCHANGED <<scored, fsc, contacts, signals, now, calls>>

\* ------------------------------------------- update_contact_info, reveal_pod

\* The users that send contact info.
ContactUsers == {1}

\* The request bodies: every dict over the keys instagram and phone with an
\* empty or a non-empty string under each key it has (the dict without keys
\* also stands for None).
ContactKeys == {"instagram", "phone"}
ContactValues == [instagram |-> {"", "@ada"}, phone |-> {"", "555-1234"}]
ContactData ==
    {d \in UNION {[D -> {"", "@ada", "555-1234"}] : D \in SUBSET ContactKeys} :
        \A k \in DOMAIN d : d[k] \in ContactValues[k]}

\* entity[key] = value
SetItem(entity, key, value) ==
    [k \in DOMAIN entity \cup {key} |-> IF k = key THEN value ELSE entity[k]]

\* upsert_contact_info that builds a new entity from data alone.
upsert_contact_info_replacing(entity, data, clock) ==
    SetItem(data, "updated_at", clock)

\* The entity upsert_contact_info puts: the one it got (or a new one) with
\* the keys data has set from data, and updated_at.
upsert_contact_info(entity, data, clock) ==
    LET old == IF entity = <<>> THEN NoneDict ELSE entity[1]
        with_instagram == IF "instagram" \in DOMAIN data
                          THEN SetItem(old, "instagram", data["instagram"]) ELSE old
        with_phone == IF "phone" \in DOMAIN data
                      THEN SetItem(with_instagram, "phone", data["phone"])
                      ELSE with_instagram
    IN SetItem(with_phone, "updated_at", clock)

\* The tests update_contact_info makes on data: the error message, or "".
ContactError(data) ==
    IF ~Truthy(data) THEN "No contact info provided"
    ELSE IF Get(data, "instagram", "") = "" /\ Get(data, "phone", "") = ""
         THEN "Provide at least instagram or phone"
    ELSE ""

\* return result, None
Stored(user_id, data) ==
    [NoResult EXCEPT !.op = "update_contact_info", !.user_id = user_id,
                     !.body = data, !.status = "contact_info"]

\* update_contact_info up to the data layer's client.get: the two tests on
\* data and their errors.
UpdateContactInfoGet(p, user_id, data) ==
    /\ Free(p)
    /\ calls < MaxCalls
    /\ calls' = calls + 1
    /\ IF ContactError(data) # ""
       THEN Return(p, Error("update_contact_info", user_id, ContactError(data)))
       ELSE Goto(p, [Idle EXCEPT !.pc = "uci_put",
                                 !.user_id = user_id,
                                 !.data = data,
                                 !.entity = get_contact_info(user_id)])
    /\ UNCHANGED <<scored, fsc, contacts, signals, pods, now, acked>>

\* The data layer's client.put, and the return of the stored entity.
UpdateContactInfoPut(p) ==
    /\ proc[p].pc = "uci_put"
    /\ LET user_id == proc[p].user_id
           entity == upsert_contact_info(proc[p].entity, proc[p].data, now)
       IN /\ contacts' = [contacts EXCEPT ![user_id] = <<entity>>]
          /\ Return(p, Stored(user_id, proc[p].data))
    /\ UNCHANGED <<scored, fsc, signals, pods, now, acked, calls>>

\* reveal_pod, which the contact-info reveal outside the core calls.
RevealPod(pod_id) ==
    /\ pod_id \in DOMAIN pods
    /\ pods' = [pods EXCEPT ![pod_id].revealed = TRUE]
    /\ res' = NoResult
    /\ UNCHANGED <<scored, fsc, contacts, signals, now, proc, acked, calls>>

\* Time passes, to the next day of ClockDays.
Tick ==
    /\ \E d \in ClockDays : d > now
    /\ now' = CHOOSE d \in ClockDays : d > now /\ \A e \in ClockDays : e > now => d <= e
    /\ res' = NoResult
    /\ UNCHANGED <<scored, fsc, contacts, signals, pods, proc, acked, calls>>

Next ==
    \/ \E p \in Procs, u \in Users : CheckForSignalPod(p, u)
    \/ \E p \in Procs : CheckForSignalSignal(p)
    \/ \E p \in Procs : CheckForSignalCluster(p)
    \/ \E p \in Procs, u \in Users, s \in SignalIds : AcceptSignalGet(p, u, s)
    \/ \E p \in Procs : AcceptSignalDbGet(p)
    \/ \E p \in Procs : AcceptSignalDbPut(p)
    \/ \E p \in Procs : AcceptSignalPod(p)
    \/ Tick

Spec == Init /\ [][Next]_vars

\* ------------------------------------- the lifecycle with contact info

\* A store that Spec reaches: two check_for_signal calls of user 1 overlapped
\* on day 0 and each created a Signal; the three targets then accepted the
\* first, which has its Pod.
SeededSignals ==
    <<[create_signal(1, 1, ClusterOf[1], 0) EXCEPT
            !.accepted_user_ids = <<1, 2, 3>>, !.status = "accepted"],
      create_signal(2, 1, ClusterOf[1], 0)>>
SeededPods == <<create_pod_from_signal(1, SeededSignals[1], 0)>>

\* The store is empty, or the store above; no request is being served.
InitReveal ==
    /\ \/ /\ signals = <<>>
          /\ pods = <<>>
          /\ acked = [s \in SignalIds |-> {}]
       \/ /\ signals = SeededSignals
          /\ pods = SeededPods
          /\ acked = [s \in SignalIds |-> IF s = 1 THEN {1, 2, 3} ELSE {}]
    /\ contacts = [u \in Users |-> <<>>]
    /\ fsc = NoCall
    /\ scored = NoScore
    /\ now = 0
    /\ proc = [p \in Procs |-> Idle]
    /\ res = NoResult
    /\ calls = 0

\* The three requests of the API, the steps of the calls under way, the
\* reveal of a Pod, and the clock.
NextReveal ==
    \/ calls < MaxServed /\ \E p \in Procs, u \in Users : CheckForSignalPod(p, u)
    \/ \E p \in Procs : CheckForSignalSignal(p)
    \/ \E p \in Procs : CheckForSignalCluster(p)
    \/ calls < MaxServed
          /\ \E p \in Procs, u \in Users, s \in SignalIds : AcceptSignalGet(p, u, s)
    \/ \E p \in Procs : AcceptSignalDbGet(p)
    \/ \E p \in Procs : AcceptSignalDbPut(p)
    \/ \E p \in Procs : AcceptSignalPod(p)
    \/ calls < MaxServed
          /\ \E p \in Procs, u \in ContactUsers, d \in ContactData :
                UpdateContactInfoGet(p, u, d)
    \/ \E p \in Procs : UpdateContactInfoPut(p)
    \/ \E i \in 1..MaxPods : RevealPod(i)
    \/ Tick

SpecReveal == InitReveal /\ [][NextReveal]_vars

\* ------------------------- the lifecycle without overlapping checks of a user

\* A store that Spec reaches: check_for_signal of user 1 created a Signal on
\* day 0, and users 1 and 2 accepted it.
PartlyAcceptedSignals ==
    <<[create_signal(1, 1, ClusterOf[1], 0) EXCEPT !.accepted_user_ids = <<1, 2>>]>>

\* The store is empty, or the store above; no request is being served.
InitRepeat ==
    /\ \/ /\ signals = <<>>
          /\ acked = [s \in SignalIds |-> {}]
       \/ /\ signals = PartlyAcceptedSignals
          /\ acked = [s \in SignalIds |-> IF s = 1 THEN {1, 2} ELSE {}]
    /\ pods = <<>>
    /\ contacts = [u \in Users |-> <<>>]
    /\ fsc = NoCall
    /\ scored = NoScore
    /\ now = 0
    /\ proc = [p \in Procs |-> Idle]
    /\ res = NoResult
    /\ calls = 0

\* No check_for_signal call of the user is being served.
NoCheckUnderWay(u) ==
    \A q \in Procs : ~(proc[q].pc \in {"cfs_signal", "cfs_cluster"} /\ proc[q].user_id = u)

\* The lifecycle when a user sends check_for_signal only after the user's
\* last check_for_signal has returned; accept_signal calls overlap with
\* anything.
NextRepeat ==
    \/ calls < MaxServed
          /\ \E p \in Procs, u \in Users : NoCheckUnderWay(u) /\ CheckForSignalPod(p, u)
    \/ \E p \in Procs : CheckForSignalSignal(p)
    \/ \E p \in Procs : CheckForSignalCluster(p)
    \/ calls < MaxServed
          /\ \E p \in Procs, u \in Users, s \in SignalIds : AcceptSignalGet(p, u, s)
    \/ \E p \in Procs : AcceptSignalDbGet(p)
    \/ \E p \in Procs : AcceptSignalDbPut(p)
    \/ \E p \in Procs : AcceptSignalPod(p)
    \/ Tick

SpecRepeat == InitRepeat /\ [][NextRepeat]_vars

\* ------------------------------------------ find_signal_cluster on its own

PoolIds == 1..MaxPoolSize

\* The requesters (the first and the last id), and the values of min_score
\* (0.7, 0.8) and of cluster_size.
Requesters == {1, MaxPoolSize}
MinScores == {7000, 8000}
ClusterSizes == 2..MaxPoolSize

\* Four shapes of profile. Two profiles of shape "E" share two of their five
\* interests and score 0.7; "H", "M" and "K" score 0.8667 (H, M), 0.832 (H, K)
\* and 0.6987 (M, K); "E" scores 0.6 or less with the others; two profiles of
\* one of the shapes "H", "M", "K" score 1.0.
Shapes == {"E", "H", "M", "K"}

PoolProfile(shape, id) ==
    [name |-> "User",
     interests |->
        CASE shape = "E" -> {"x", "y", "a" \o ToString(id), "b" \o ToString(id),
                             "c" \o ToString(id)}
          [] shape = "H" -> {"hiking", "music", "cooking"}
          [] shape = "M" -> {"music", "cooking"}
          [] OTHER -> {"hiking", "cooking"},
     personality |->
        [k \in Range(PERSONALITY_KEYS) |->
            IF shape = "K" /\ k = "introvert_extrovert" THEN 6 ELSE NEUTRAL],
     vibe_check |-> NoneDict]

\* The all_profiles dicts: some of the ids, each with a profile of one shape
\* (kept as the shape), in ascending order of id.
Pools == UNION {[D -> Shapes] : D \in SUBSET PoolIds}

PoolProfiles(pool) == [id \in DOMAIN pool |-> PoolProfile(pool[id], id)]

InitCluster ==
    /\ signals = <<>>
    /\ pods = <<>>
    /\ contacts = [u \in Users |-> <<>>]
    /\ now = 0
    /\ proc = [p \in Procs |-> Idle]
    /\ res = NoResult
    /\ acked = [s \in SignalIds |-> {}]
    /\ calls = 0
    /\ fsc \in [pc : {"call"}, user_id : Requesters, all_profiles : Pools,
                 min_score : MinScores, cluster_size : ClusterSizes, cluster : {<<>>},
                 again : {<<>>}]
    /\ scored = NoScore

\* The call: cluster is what find_signal_cluster returns.
FindSignalCluster ==
    /\ fsc.pc = "call"
    /\ fsc' = [fsc EXCEPT
                  !.pc = "done",
                  !.cluster = find_signal_cluster(fsc.user_id,
                                                  AscendingSeq(DOMAIN fsc.all_profiles),
                                                  PoolProfiles(fsc.all_profiles),
                                                  fsc.min_score, fsc.cluster_size)]
    /\ UNCHANGED <<scored, signals, pods, contacts, now, proc, res, acked, calls>>

NextCluster == FindSignalCluster

SpecCluster == InitCluster /\ [][NextCluster]_vars

\* A second run with the same arguments.
FindSignalClusterAgain ==
    /\ fsc.pc = "done"
    /\ fsc' = [fsc EXCEPT
                  !.pc = "again",
                  !.again = find_signal_cluster(fsc.user_id,
                                                AscendingSeq(DOMAIN fsc.all_profiles),
                                                PoolProfiles(fsc.all_profiles),
                                                fsc.min_score, fsc.cluster_size)]
    /\ UNCHANGED <<scored, signals, pods, contacts, now, proc, res, acked, calls>>

NextRerun == FindSignalCluster \/ FindSignalClusterAgain

SpecRerun == InitCluster /\ [][NextRerun]_vars

\* ------------------------------------------ the scoring functions on their own

\* An argument that may be None, as the dict the code's tests see.
Dict(obj) == IF obj = <<>> THEN NoneDict ELSE obj[1]

\* None, or a dict of S.
Option(S) == {<<>>} \cup {<<d>> : d \in S}

\* The interests lists, as sets.
InterestSets == {{}, {"x"}, {"x", "y"}}

\* Slider values 0.0, 0.5 and 1.0, in tenths.
SliderValues == {0, NEUTRAL, 10}

\* The personality dicts: {}, one without any slider key, one slider alone,
\* and all three sliders at one end.
PersonalityDicts ==
    {NoneDict, [k \in {"openness"} |-> 3]}
        \cup {[k \in {"introvert_extrovert"} |-> v] : v \in SliderValues}
        \cup {[k \in Range(PERSONALITY_KEYS) |-> v] : v \in {0, 10}}

\* The vibe_check dicts: {}, an MBTI type alone, a dimension with a type, and
\* all eight dimensions at one end without a type.
VibeCheckDicts ==
    {NoneDict, [introvert_extrovert |-> 0, mbti_type |-> "ENFP"],
     [k \in Range(VIBE_CHECK_KEYS) |-> 10]}
        \cup {[k \in {"mbti_type"} |-> t] : t \in {"ENFP", "INFJ", "ISTJ"}}

ScoreProfiles ==
    [interests : InterestSets, personality : Option(PersonalityDicts),
     vibe_check : Option(VibeCheckDicts)]

\* The MBTI arguments: None or "", the 16 types of the table, two of them in
\* lower case, and a type the table does not list, in both cases.
MbtiInputs == MBTI_TYPES \cup {"", "enfp", "infj", "XXXX", "xxxx"}

\* profile.get('interests'), .get('personality'), .get('vibe_check')
Plain(profile) ==
    [interests |-> profile.interests,
     personality |-> Dict(profile.personality),
     vibe_check |-> Dict(profile.vibe_check)]

\* The five scoring functions on the arguments a, b.
Scores(a, b, mbti_a, mbti_b) ==
    [interest |-> interest_score(a.interests, b.interests),
     vibe |-> vibe_score(Dict(a.personality), Dict(b.personality)),
     vibe_check |-> vibe_check_score(Dict(a.vibe_check), Dict(b.vibe_check)),
     bonus |-> mbti_compatibility_bonus(mbti_a, mbti_b),
     weighted |-> weighted_match_score(Plain(a), Plain(b))]

\* A call scores two profiles, or two MBTI types.
InitScore ==
    /\ signals = <<>>
    /\ pods = <<>>
    /\ contacts = [u \in Users |-> <<>>]
    /\ fsc = NoCall
    /\ now = 0
    /\ proc = [p \in Procs |-> Idle]
    /\ res = NoResult
    /\ acked = [s \in SignalIds |-> {}]
    /\ calls = 0
    /\ \/ scored \in [pc : {"call"}, profile_a : ScoreProfiles, profile_b : ScoreProfiles,
                       mbti_a : {""}, mbti_b : {""}, out : {<<>>}]
       \/ scored \in [pc : {"call"}, profile_a : {NoProfile}, profile_b : {NoProfile},
                       mbti_a : MbtiInputs, mbti_b : MbtiInputs, out : {<<>>}]

\* The call, and the call with the arguments swapped.
Score ==
    /\ scored.pc = "call"
    /\ scored' = [scored EXCEPT
                     !.pc = "done",
                     !.out = [ab |-> Scores(scored.profile_a, scored.profile_b,
                                            scored.mbti_a, scored.mbti_b),
                              ba |-> Scores(scored.profile_b, scored.profile_a,
                                            scored.mbti_b, scored.mbti_a)]]
    /\ UNCHANGED <<fsc, signals, pods, contacts, now, proc, res, acked, calls>>

NextScore == Score

SpecScore == InitScore /\ [][NextScore]_vars

\* ----------------------------------------------------------------- claims

\* The Pods created from the Signal s.
PodsOf(s) == {i \in DOMAIN pods : pods[i].signal_id = s}

NoDup(seq) == Cardinality(Range(seq)) = Len(seq)

Expired(entity) == now > entity.expires_at

\* The handler p takes a step out of the step `pc` of its call.
Leaves(p, pc) == proc[p].pc = pc /\ proc'[p].pc # pc

\* C1: for every Signal, at most one Pod is ever created with that Signal's
\* id as signal_id, whatever the interleaving of accept_signal calls.
C1_AtMostOnePodPerSignal ==
    \A s \in DOMAIN signals : Cardinality(PodsOf(s)) <= 1

\* C2: once a stored Signal's status is accepted it stays accepted: no step
\* writes pending back.
C2_AcceptedIsTerminal ==
    [][\A s \in DOMAIN signals :
            signals[s].status = "accepted" => signals'[s].status = "accepted"]_vars

\* C3: every stored Signal has accepted_user_ids a subset of target_user_ids.
C3_AcceptedSubsetOfTargets ==
    \A s \in DOMAIN signals :
        Range(signals[s].accepted_user_ids) \subseteq Range(signals[s].target_user_ids)

\* C3's case: a user who is no target has asked to accept a Signal that
\* already holds acceptances, and was turned away.
C3_Witness ==
    /\ res.op = "accept_signal"
    /\ res.error = "You are not part of this signal"
    /\ Len(signals) = 1
    /\ signals[1].accepted_user_ids # <<>>
    /\ res.user_id \notin Range(signals[1].target_user_ids)

\* C4: a stored Signal has status accepted if and only if its
\* accepted_user_ids cover its target_user_ids, and is pending otherwise.
C4_AcceptedIffAllTargetsAccepted ==
    \A s \in DOMAIN signals :
        /\ signals[s].status \in {"pending", "accepted"}
        /\ signals[s].status = "accepted"
             <=> Range(signals[s].target_user_ids) \subseteq Range(signals[s].accepted_user_ids)

\* C4's case: one Signal has been accepted by all its targets while another
\* handler still holds the pending entity it read, to put it.
C4_Witness ==
    \E s \in DOMAIN signals :
        /\ signals[s].status = "accepted"
        /\ Range(signals[s].target_user_ids) = Range(signals[s].accepted_user_ids)
        /\ \E p \in Procs :
              /\ proc[p].pc = "acc_db_put"
              /\ proc[p].signal_id = s
              /\ proc[p].entity[1].status = "pending"

\* C5: no reachable state has a stored Signal with status accepted and no
\* Pod with that Signal's id.
C5_AcceptedSignalHasPod ==
    \A s \in DOMAIN signals : signals[s].status = "accepted" => PodsOf(s) # {}

\* C6: if every target of a Signal has had an accept_signal call on it return
\* without error before its expires_at, the Signal is accepted and has a Pod.
C6_AllAnsweredImpliesPod ==
    \A s \in DOMAIN signals :
        Range(signals[s].target_user_ids) \subseteq acked[s]
            => signals[s].status = "accepted" /\ PodsOf(s) # {}

\* C7: a check_for_signal call that is past both queries creates its Signal
\* whatever the store holds by then, so two calls for one requester that
\* overlap each create one (the state C7_Witness).
C7_CreateIgnoresLaterSignals ==
    [][\A p \in Procs :
          (Leaves(p, "cfs_cluster") /\ ClusterOf[proc[p].user_id] # <<>>)
              => /\ Len(signals') = Len(signals) + 1
                 /\ SubSeq(signals', 1, Len(signals)) = signals
                 /\ signals'[Len(signals')].creator_id = proc[p].user_id
                 /\ signals'[Len(signals')].status = "pending"
                 /\ res'.status = "new_signal"]_vars

\* C7's case: two pending, unexpired Signals with the same creator.
C7_Witness ==
    \E s, t \in DOMAIN signals :
        /\ s # t
        /\ signals[s].creator_id = signals[t].creator_id
        /\ signals[s].status = "pending" /\ signals[t].status = "pending"
        /\ ~Expired(signals[s]) /\ ~Expired(signals[t])

\* C8: the Pod an accept_signal call creates has the Signal's targets as
\* members, revealed = false, the Signal's id as signal_id and
\* expires_at = created_at + 7 days; the call returns has_pod, revealed = false.
C8_PodOfLastAcceptance ==
    [][\A p \in Procs :
          Leaves(p, "acc_pod")
              => /\ Len(pods') = Len(pods) + 1
                 /\ SubSeq(pods', 1, Len(pods)) = pods
                 /\ LET pod == pods'[Len(pods')]
                        signal == signals[proc[p].signal_id]
                    IN /\ pod.members = signal.target_user_ids
                       /\ pod.revealed = FALSE
                       /\ pod.signal_id = signal.id
                       /\ pod.created_at = now
                       /\ pod.expires_at = pod.created_at + 7
                       /\ res'.op = "accept_signal"
                       /\ res'.status = "has_pod"
                       /\ res'.error = ""
                       /\ res'.pod = pod.id
                       /\ res'.revealed = FALSE]_vars

\* C8's case: a Pod created on a later day than its Signal, by the call that
\* recorded the last missing acceptance.
C8_Witness ==
    /\ res.op = "accept_signal"
    /\ res.status = "has_pod"
    /\ pods[res.pod].created_at > signals[pods[res.pod].signal_id].created_at
    /\ Range(signals[pods[res.pod].signal_id].accepted_user_ids)
          = Range(signals[pods[res.pod].signal_id].target_user_ids)

\* C9: no user ID is ever twice in accepted_user_ids, and the put of a user
\* who is already in the pending Signal's list (with nothing written since
\* the call read it) leaves the list as it was.
C9_AcceptIsIdempotent ==
    /\ [](\A s \in DOMAIN signals : NoDup(signals[s].accepted_user_ids))
    /\ [][\A p \in Procs :
             (/\ Leaves(p, "acc_db_put")
              /\ proc[p].entity[1] = signals[proc[p].signal_id]
              /\ proc[p].user_id \in Range(signals[proc[p].signal_id].accepted_user_ids))
                 => signals' = signals]_vars

\* C9's case: a user's second accept_signal call has just written a pending
\* Signal whose list already held the user (another handler read that list
\* earlier), and the list is still the same.
C9_Witness ==
    /\ res.op = "accept_signal"
    /\ res.status = "has_signal"
    /\ signals[res.signal].status = "pending"
    /\ \E q \in Procs :
          /\ proc[q].pc = "acc_db_put"
          /\ proc[q].signal_id = res.signal
          /\ res.user_id \in Range(proc[q].entity[1].accepted_user_ids)
          /\ proc[q].entity[1].accepted_user_ids = signals[res.signal].accepted_user_ids

\* The error accept_signal(user_id, signal_id) owes in the present state, by
\* the order of C10: not found, not a target, expired, already accepted.
C10_ErrorOwed(user_id, signal_id) ==
    CASE signal_id \notin DOMAIN signals -> "Signal not found"
      [] signal_id \in DOMAIN signals
            /\ user_id \notin Range(signals[signal_id].target_user_ids)
         -> "You are not part of this signal"
      [] signal_id \in DOMAIN signals
            /\ user_id \in Range(signals[signal_id].target_user_ids)
            /\ Expired(signals[signal_id])
         -> "This signal has expired"
      [] signal_id \in DOMAIN signals
            /\ user_id \in Range(signals[signal_id].target_user_ids)
            /\ ~Expired(signals[signal_id])
            /\ signals[signal_id].status = "accepted"
         -> "This signal has already been fully accepted"
      [] OTHER -> ""

\* C10: accept_signal returns (None, error) and changes no Signal or Pod when
\* the Signal does not exist, the user is no target, the Signal is expired, or
\* it is accepted, tested in this order; it returns no error otherwise.
C10_AcceptErrorsInOrder ==
    [][\A p \in Procs, u \in Users, s \in SignalIds :
          AcceptSignalGet(p, u, s)
              => IF C10_ErrorOwed(u, s) # ""
                 THEN /\ res'.op = "accept_signal"
                      /\ res'.status = "none"
                      /\ res'.error = C10_ErrorOwed(u, s)
                      /\ proc'[p].pc = "idle"
                      /\ signals' = signals
                      /\ pods' = pods
                 ELSE res'.error = "" /\ proc'[p].pc = "acc_db_get"]_vars

\* C10's case: a user who is no target is told so by an accepted Signal that
\* has also expired.
C10_Witness ==
    /\ res.op = "accept_signal"
    /\ res.status = "none"
    /\ res.error = "You are not part of this signal"
    /\ Len(signals) = 1
    /\ signals[1].status = "accepted"
    /\ Expired(signals[1])

\* C11: once the clock has passed a Signal's expires_at, no step changes its
\* accepted_user_ids or its status, and no Pod is created from it.
C11_ExpiredSignalIsFrozen ==
    [][\A s \in DOMAIN signals :
          Expired(signals[s])
              => /\ signals'[s].accepted_user_ids = signals[s].accepted_user_ids
                 /\ signals'[s].status = signals[s].status
                 /\ \A i \in DOMAIN pods' :
                       i \notin DOMAIN pods => pods'[i].signal_id # s]_vars

\* The user has a complete profile (a Profile with a name).
Complete(user_id) == user_id \in DOMAIN ProfileStore /\ ProfileStore[user_id].name # ""

\* C12: check_for_signal of a user with a complete profile returns has_pod
\* whenever the newest Pod with the user is unexpired, whatever Signals there
\* are; only a call that found no such Pod queries the pending Signals, and
\* returns has_signal if the newest one that targets the user is unexpired;
\* only a call that found neither runs the cluster finder, and returns
\* new_signal or no_match.
C12_PodThenSignalThenCluster ==
    [][/\ \A p \in Procs, u \in Users :
             (CheckForSignalPod(p, u) /\ Complete(u))
                 => IF \E pod \in get_active_pod(u) : ~Expired(pod)
                    THEN /\ res'.op = "check_for_signal"
                         /\ res'.user_id = u
                         /\ res'.status = "has_pod"
                         /\ res'.pod \in {pod.id : pod \in get_active_pod(u)}
                         /\ proc'[p].pc = "idle"
                    ELSE /\ res' = NoResult
                         /\ proc'[p].pc = "cfs_signal"
                         /\ proc'[p].user_id = u
       /\ \A p \in Procs :
             Leaves(p, "cfs_signal")
                 => IF \E signal \in get_signal_for_user(proc[p].user_id) : ~Expired(signal)
                    THEN /\ res'.op = "check_for_signal"
                         /\ res'.user_id = proc[p].user_id
                         /\ res'.status = "has_signal"
                         /\ res'.signal \in {signal.id : signal \in get_signal_for_user(proc[p].user_id)}
                         /\ proc'[p].pc = "idle"
                    ELSE /\ res' = NoResult
                         /\ proc'[p].pc = "cfs_cluster"
                         /\ proc'[p].user_id = proc[p].user_id
       /\ \A p \in Procs :
             Leaves(p, "cfs_cluster")
                 => /\ res'.op = "check_for_signal"
                    /\ res'.status \in {"new_signal", "no_match"}
                    /\ proc'[p].pc = "idle"
       /\ (res'.op = "check_for_signal" /\ res'.status = "has_signal")
             => \E p \in Procs : Leaves(p, "cfs_signal")
       /\ (res'.op = "check_for_signal" /\ res'.status \in {"new_signal", "no_match"})
             => \E p \in Procs : Leaves(p, "cfs_cluster")]_vars

\* C12's case: has_pod is returned to a user who is also the target of a
\* pending, unexpired Signal.
C12_Witness ==
    /\ res.op = "check_for_signal"
    /\ res.status = "has_pod"
    /\ ~Expired(pods[res.pod])
    /\ \E s \in DOMAIN signals :
          /\ res.user_id \in Range(signals[s].target_user_ids)
          /\ signals[s].status = "pending"
          /\ ~Expired(signals[s])

\* C13: check_for_signal never returns has_pod with a Pod past its expires_at
\* nor has_signal with a Signal past its expires_at; a call that finds an
\* expired Pod goes on to the pending-Signal query, and one that finds an
\* expired Signal goes on to the cluster finder.
C13_NoStaleRecordSurfaced ==
    /\ [](res.op = "check_for_signal" /\ res.status = "has_pod"
              => ~Expired(pods[res.pod]))
    /\ [](res.op = "check_for_signal" /\ res.status = "has_signal"
              => ~Expired(signals[res.signal]))
    /\ [][\A p \in Procs, u \in Users :
             (/\ CheckForSignalPod(p, u)
              /\ Complete(u)
              /\ \E pod \in get_active_pod(u) : Expired(pod))
                 => proc'[p].pc = "cfs_signal" /\ proc'[p].user_id = u]_vars
    /\ [][\A p \in Procs :
             (/\ Leaves(p, "cfs_signal")
              /\ \E signal \in get_signal_for_user(proc[p].user_id) : Expired(signal))
                 => proc'[p].pc = "cfs_cluster"]_vars

\* C13's case: a call made after the requester's Pod expired went past the
\* Pod and created a new Signal.
C13_Witness ==
    /\ res.op = "check_for_signal"
    /\ res.status = "new_signal"
    /\ \E i \in DOMAIN pods :
          /\ res.user_id \in Range(pods[i].members)
          /\ Expired(pods[i])
          /\ pods[i].expires_at < signals[res.signal].created_at

\* C14: a member entry of a response has contact_info only if the response is
\* check_for_signal's has_pod for a Pod with revealed = true; no entry of a
\* has_signal or new_signal response, of a has_pod response for an unrevealed
\* Pod, or of any accept_signal response has it.
C14_ContactOnlyWhenRevealed ==
    \A i \in DOMAIN res.members :
        "contact_info" \in DOMAIN res.members[i]
            => /\ res.op = "check_for_signal"
               /\ res.status = "has_pod"
               /\ res.revealed
               /\ pods[res.pod].revealed

\* C14's case: has_pod for a revealed Pod, returned with the stored contact
\* info of a member.
C14_Witness ==
    /\ res.op = "check_for_signal"
    /\ res.status = "has_pod"
    /\ pods[res.pod].revealed
    /\ \A i \in DOMAIN res.members : "contact_info" \in DOMAIN res.members[i]
    /\ \E i \in DOMAIN res.members :
          /\ res.members[i].contact_info # <<>>
          /\ res.members[i].contact_info = contacts[res.members[i].user_id]

\* data provides a non-empty instagram or a non-empty phone.
Provides(data) ==
    \E k \in ContactKeys : k \in DOMAIN data /\ data[k] # ""

\* C15: update_contact_info returns (None, error) and stores nothing when
\* data is empty or has neither a non-empty instagram nor a non-empty phone;
\* otherwise the record it stores has every key of data set to data's value
\* and every other contact field as it was before the call.
C15_UpsertKeepsOtherFields ==
    [][/\ \A p \in Procs, u \in ContactUsers, d \in ContactData :
             UpdateContactInfoGet(p, u, d)
                 => IF ~Provides(d)
                    THEN /\ res'.op = "update_contact_info"
                         /\ res'.status = "none"
                         /\ res'.error # ""
                         /\ contacts' = contacts
                         /\ proc'[p].pc = "idle"
                    ELSE /\ res'.error = ""
                         /\ contacts' = contacts
                         /\ proc'[p].pc = "uci_put"
                         /\ proc'[p].entity = contacts[u]
       /\ \A p \in Procs :
             Leaves(p, "uci_put")
                 => LET u == proc[p].user_id
                        d == proc[p].data
                        before == proc[p].entity
                        after == contacts'[u]
                    IN /\ res'.op = "update_contact_info"
                       /\ res'.error = ""
                       /\ after # <<>>
                       /\ \A v \in Users \ {u} : contacts'[v] = contacts[v]
                       /\ \A k \in ContactKeys :
                             IF k \in DOMAIN d
                             THEN k \in DOMAIN after[1] /\ after[1][k] = d[k]
                             ELSE IF before # <<>> /\ k \in DOMAIN before[1]
                             THEN k \in DOMAIN after[1] /\ after[1][k] = before[1][k]
                             ELSE k \notin DOMAIN after[1]]_vars

\* C15's case: a call that provided only phone has stored it, and the
\* instagram stored by an earlier call is still there.
C15_Witness ==
    /\ res.op = "update_contact_info"
    /\ res.error = ""
    /\ DOMAIN res.body = {"phone"}
    /\ contacts[res.user_id] # <<>>
    /\ "instagram" \in DOMAIN contacts[res.user_id][1]
    /\ contacts[res.user_id][1]["instagram"] = "@ada"
    /\ contacts[res.user_id][1]["phone"] = res.body["phone"]

\* The call of find_signal_cluster has returned.
Returned == fsc.pc = "done"

\* The keys of the pool, and the score of two of its profiles.
PoolKeys == DOMAIN fsc.all_profiles
PairScore(a, b) ==
    weighted_match_score(PoolProfile(fsc.all_profiles[a], a),
                         PoolProfile(fsc.all_profiles[b], b))

\* The other pool members that score min_score or more against the requester.
Qualifying ==
    IF fsc.user_id \in PoolKeys
    THEN {o \in PoolKeys \ {fsc.user_id} : PairScore(fsc.user_id, o) >= fsc.min_score}
    ELSE {}

\* C16: find_signal_cluster returns the empty list when the requester is no
\* key of the pool, or fewer than 2 other pool members score min_score or more
\* against the requester.
C16_EmptyWithoutTwoCandidates ==
    (Returned /\ (fsc.user_id \notin PoolKeys \/ Cardinality(Qualifying) < 2))
        => fsc.cluster = <<>>

\* C16's case: a pool of three or more with the requester in it, and exactly
\* one other member that qualifies.
C16_Witness ==
    /\ Returned
    /\ fsc.user_id \in PoolKeys
    /\ Cardinality(PoolKeys) >= 3
    /\ Cardinality(Qualifying) = 1
    /\ fsc.cluster_size >= 3
    /\ fsc.cluster = <<>>

\* C17: a non-empty result has the requester first, no id twice, only keys of
\* the pool, and between 3 and cluster_size members.
C17_ResultShape ==
    (Returned /\ fsc.cluster # <<>>)
        => /\ fsc.cluster[1] = fsc.user_id
           /\ NoDup(fsc.cluster)
           /\ Range(fsc.cluster) \subseteq PoolKeys
           /\ Len(fsc.cluster) >= 3
           /\ Len(fsc.cluster) <= fsc.cluster_size

\* C17's case: a cluster of cluster_size = 3 members although a fourth pool
\* member qualifies.
C17_Witness ==
    /\ Returned
    /\ fsc.cluster_size = 3
    /\ Len(fsc.cluster) = 3
    /\ Cardinality(Qualifying) >= 3

\* C18: every two distinct members of a returned cluster score min_score or
\* more against each other.
C18_MutuallyCompatible ==
    (Returned /\ fsc.cluster # <<>>)
        => \A a, b \in Range(fsc.cluster) :
              a # b => PairScore(a, b) >= fsc.min_score

\* C18 as amended: every member scores min_score or more against the
\* requester, and every member from the third on has an average score against
\* the members listed before it of min_score or more.
C18_CompatibleOnAverage ==
    (Returned /\ fsc.cluster # <<>>)
        => /\ \A i \in 2..Len(fsc.cluster) :
                 PairScore(fsc.cluster[1], fsc.cluster[i]) >= fsc.min_score
           /\ \A i \in 3..Len(fsc.cluster) :
                 SumSeq([j \in 1..(i - 1) |-> PairScore(fsc.cluster[i], fsc.cluster[j])])
                    >= fsc.min_score * (i - 1)

\* C18's case: a returned cluster with two members that score below min_score
\* against each other.
C18_Witness ==
    /\ Returned
    /\ \E a, b \in Range(fsc.cluster) :
          a # b /\ PairScore(a, b) < fsc.min_score

\* C19: every member of a returned cluster but the requester scores min_score
\* or more against the requester, so no pool member that scores below it is
\* in the result.
C19_MembersQualify ==
    (Returned /\ fsc.cluster # <<>>)
        => /\ Range(fsc.cluster) \ {fsc.user_id} \subseteq Qualifying
           /\ \A o \in PoolKeys \ {fsc.user_id} :
                 PairScore(fsc.user_id, o) < fsc.min_score => o \notin Range(fsc.cluster)

\* C19's case: a cluster is returned from a pool with a member that scores
\* below min_score against the requester and well against the others.
C19_Witness ==
    /\ Returned
    /\ fsc.cluster # <<>>
    /\ \E o \in PoolKeys \ {fsc.user_id} :
          /\ PairScore(fsc.user_id, o) < fsc.min_score
          /\ \A c \in Range(fsc.cluster) \ {fsc.user_id} :
                PairScore(o, c) >= fsc.min_score

\* C20: from a pool with the requester and cluster_size - 1 or more others in
\* which every two profiles score min_score or more, find_signal_cluster
\* returns cluster_size members (cluster_size >= 3), the requester among them.
C20_FullClusterWhenAllCompatible ==
    (/\ Returned
     /\ fsc.user_id \in PoolKeys
     /\ fsc.cluster_size >= 3
     /\ Cardinality(PoolKeys \ {fsc.user_id}) >= fsc.cluster_size - 1
     /\ \A a, b \in PoolKeys : a # b => PairScore(a, b) >= fsc.min_score)
        => /\ Len(fsc.cluster) = fsc.cluster_size
           /\ fsc.user_id \in Range(fsc.cluster)

Scored == scored.pc = "done"

\* C22: interest_score, vibe_score, vibe_check_score,
\* mbti_compatibility_bonus and weighted_match_score each return the same
\* value with their arguments swapped.
C22_ScoresAreSymmetric ==
    Scored => scored.out.ab = scored.out.ba

\* C22's case: one profile alone has vibe_check with an MBTI type, the two
\* differ in interests and personality, and the scores are not all zero.
C22_Witness ==
    /\ Scored
    /\ Truthy(Dict(scored.profile_a.vibe_check))
    /\ "mbti_type" \in DOMAIN Dict(scored.profile_a.vibe_check)
    /\ scored.profile_b.vibe_check = <<>>
    /\ scored.profile_a.interests # scored.profile_b.interests
    /\ scored.profile_a.personality # scored.profile_b.personality
    /\ scored.out.ab.weighted > 0
    /\ scored.out.ab.weighted < ONE

C24_BonusOwed(mbti_a, mbti_b) ==
    IF mbti_a = "" \/ mbti_b = "" THEN 0
    ELSE IF \/ (Upper(mbti_a) \in MBTI_TYPES
                  /\ Upper(mbti_b) \in MBTI_BEST_FRIENDS[Upper(mbti_a)])
            \/ (Upper(mbti_b) \in MBTI_TYPES
                  /\ Upper(mbti_a) \in MBTI_BEST_FRIENDS[Upper(mbti_b)])
         THEN 1000
    ELSE IF Upper(mbti_a) = Upper(mbti_b) THEN 500
    ELSE 0

\* C24: mbti_compatibility_bonus returns 0.0 when a type is absent or empty,
\* else 0.10 if either upper-cased type is in the other's list, else 0.05 if
\* they are equal, else 0.0; a listed type with itself gives 0.10, so 0.05 is
\* returned only for equal types the table does not list.
C24_BonusByTable ==
    Scored
        => /\ scored.out.ab.bonus = C24_BonusOwed(scored.mbti_a, scored.mbti_b)
           /\ (scored.mbti_a \in MBTI_TYPES /\ scored.mbti_b = scored.mbti_a)
                 => scored.out.ab.bonus = 1000
           /\ scored.out.ab.bonus = 500
                 => /\ Upper(scored.mbti_a) = Upper(scored.mbti_b)
                    /\ Upper(scored.mbti_a) \notin MBTI_TYPES

\* C24's case: one unlisted type in lower and in upper case gives 0.05.
C24_Witness ==
    /\ Scored
    /\ scored.mbti_a = "xxxx"
    /\ scored.mbti_b = "XXXX"
    /\ scored.out.ab.bonus = 500

\* C25: for all types a and b among the 16 keys of the table, b is in a's
\* list if and only if a is in b's list.
C25_TableIsSymmetric ==
    (Scored /\ scored.mbti_a \in MBTI_TYPES /\ scored.mbti_b \in MBTI_TYPES)
        => (scored.mbti_b \in MBTI_BEST_FRIENDS[scored.mbti_a]
              <=> scored.mbti_a \in MBTI_BEST_FRIENDS[scored.mbti_b])

\* C25 as amended: for all types a and b among the 16 keys, the lookup
\* mbti_compatibility_bonus makes is symmetric: it gives 0.10 for (a, b) and
\* for (b, a) if b is in a's list or a is in b's list, and 0.0 for both
\* otherwise.
C25_LookupIsSymmetric ==
    (Scored /\ scored.mbti_a \in MBTI_TYPES /\ scored.mbti_b \in MBTI_TYPES)
        => LET listed == \/ scored.mbti_b \in MBTI_BEST_FRIENDS[scored.mbti_a]
                         \/ scored.mbti_a \in MBTI_BEST_FRIENDS[scored.mbti_b]
           IN /\ scored.out.ab.bonus = IF listed THEN 1000 ELSE 0
              /\ scored.out.ba.bonus = scored.out.ab.bonus

\* C25's case: b is in a's list, a is not in b's list, and the bonus is 0.10
\* both ways.
C25_Witness ==
    /\ Scored
    /\ scored.mbti_a \in MBTI_TYPES
    /\ scored.mbti_b \in MBTI_TYPES
    /\ scored.mbti_b \in MBTI_BEST_FRIENDS[scored.mbti_a]
    /\ scored.mbti_a \notin MBTI_BEST_FRIENDS[scored.mbti_b]
    /\ scored.out.ab.bonus = 1000
    /\ scored.out.ba.bonus = 1000

\* round(1 - distance / max distance, 4) over the keys, a missing key read
\* as 0.5.
C26_ByDistance(keys, a, b) ==
    ONE - RoundSqrt(SquaredSum(keys, a, b) * 1000000, Len(keys))

\* C26: vibe_score and vibe_check_score return the flat 0.0 only when one of
\* the two objects is absent (None); two present objects score by their
\* distance with every missing key read as 0.5, so two present objects
\* without any of the keys score 1.0.
C26_FlatZeroOnlyForAbsentObject ==
    Scored
        => LET pa == scored.profile_a.personality
               pb == scored.profile_b.personality
               va == scored.profile_a.vibe_check
               vb == scored.profile_b.vibe_check
           IN /\ (pa = <<>> \/ pb = <<>>) => scored.out.ab.vibe = 0
              /\ (va = <<>> \/ vb = <<>>) => scored.out.ab.vibe_check = 0
              /\ (pa # <<>> /\ pb # <<>>)
                    => scored.out.ab.vibe = C26_ByDistance(PERSONALITY_KEYS, pa[1], pb[1])
              /\ (va # <<>> /\ vb # <<>>)
                    => scored.out.ab.vibe_check = C26_ByDistance(VIBE_CHECK_KEYS, va[1], vb[1])
              /\ (/\ pa # <<>> /\ pb # <<>>
                  /\ DOMAIN pa[1] \cap Range(PERSONALITY_KEYS) = {}
                  /\ DOMAIN pb[1] \cap Range(PERSONALITY_KEYS) = {})
                    => scored.out.ab.vibe = ONE
              /\ (/\ va # <<>> /\ vb # <<>>
                  /\ DOMAIN va[1] \cap Range(VIBE_CHECK_KEYS) = {}
                  /\ DOMAIN vb[1] \cap Range(VIBE_CHECK_KEYS) = {})
                    => scored.out.ab.vibe_check = ONE

\* The sum of the scores of c against the members of `before`.
C27_SumTo(c, before) ==
    SumSeq([j \in DOMAIN before |-> PairScore(c, before[j])])

\* C27: in a non-empty result the second element has the maximum score
\* against the requester among the qualifying candidates; every later element
\* had, when it was added, the maximum average score to the members before it
\* among the qualifying candidates not yet in the cluster, and that average
\* was min_score or more; so no element was added at or after a step whose
\* best average was below min_score.
C27_GreedyByBestAverage ==
    (Returned /\ fsc.cluster # <<>>)
        => /\ fsc.cluster[2] \in Qualifying
           /\ \A o \in Qualifying :
                 PairScore(fsc.user_id, fsc.cluster[2]) >= PairScore(fsc.user_id, o)
           /\ \A i \in 3..Len(fsc.cluster) :
                 LET before == SubSeq(fsc.cluster, 1, i - 1)
                     rest == Qualifying \ Range(before)
                 IN /\ fsc.cluster[i] \in rest
                    /\ \A o \in rest :
                          C27_SumTo(fsc.cluster[i], before) >= C27_SumTo(o, before)
                    /\ C27_SumTo(fsc.cluster[i], before) >= fsc.min_score * (i - 1)
                    /\ \A k \in 2..(i - 1) :
                          \E o \in Qualifying \ Range(SubSeq(fsc.cluster, 1, k)) :
                             C27_SumTo(o, SubSeq(fsc.cluster, 1, k)) >= fsc.min_score * k

\* C27's case: the third member was the better of two candidates with
\* different averages, and the expansion stopped short of cluster_size at a
\* candidate whose average was below min_score.
C27_Witness ==
    /\ Returned
    /\ Len(fsc.cluster) = 3
    /\ fsc.cluster_size > 3
    /\ \E o \in Qualifying \ Range(fsc.cluster) :
          /\ C27_SumTo(o, SubSeq(fsc.cluster, 1, 2))
                < C27_SumTo(fsc.cluster[3], SubSeq(fsc.cluster, 1, 2))
          /\ C27_SumTo(o, fsc.cluster) < fsc.min_score * 3
    /\ \A o \in Qualifying \ Range(fsc.cluster) :
          C27_SumTo(o, fsc.cluster) < fsc.min_score * 3

\* The step is a step of a check_for_signal call.
CheckForSignalStep ==
    \/ res'.op = "check_for_signal"
    \/ \E p \in Procs :
          \/ proc[p].pc = "idle" /\ proc'[p].pc = "cfs_signal"
          \/ Leaves(p, "cfs_signal")
          \/ Leaves(p, "cfs_cluster")

\* C28: check_for_signal writes to the store only when it returns
\* new_signal, and then it adds one Signal (creator the requester, targets the
\* found cluster with the requester, no acceptances, pending, expires_at =
\* created_at + 7 days) and changes nothing else; every other step of it and
\* every other outcome leaves the Signals and the Pods as they are.
C28_WritesOnlyTheNewSignal ==
    [][CheckForSignalStep
          => /\ pods' = pods
             /\ contacts' = contacts
             /\ IF res'.status = "new_signal"
                THEN /\ Len(signals') = Len(signals) + 1
                     /\ SubSeq(signals', 1, Len(signals)) = signals
                     /\ LET signal == signals'[Len(signals')]
                        IN /\ res'.signal = signal.id
                           /\ signal.creator_id = res'.user_id
                           /\ signal.target_user_ids = ClusterOf[res'.user_id]
                           /\ res'.user_id \in Range(signal.target_user_ids)
                           /\ signal.accepted_user_ids = <<>>
                           /\ signal.status = "pending"
                           /\ signal.created_at = now
                           /\ signal.expires_at = signal.created_at + 7
                ELSE signals' = signals]_vars

\* C28's case: new_signal is returned while the store holds an earlier
\* Signal with an acceptance.
C28_Witness ==
    /\ res.op = "check_for_signal"
    /\ res.status = "new_signal"
    /\ res.signal = 2
    /\ signals[1].accepted_user_ids # <<>>

\* The unexpired pending Signals that target the user u, and the unexpired
\* Pods with the member u.
LiveSignalsOf(u) ==
    {s \in DOMAIN signals : /\ signals[s].status = "pending"
                            /\ ~Expired(signals[s])
                            /\ u \in Range(signals[s].target_user_ids)}
LivePodsOf(u) ==
    {i \in DOMAIN pods : ~Expired(pods[i]) /\ u \in Range(pods[i].members)}

\* C30: no user is a target of two unexpired pending Signals at once, nor a
\* member of two unexpired Pods at once, and check_for_signal never creates a
\* Signal with a target who is already a target of an unexpired pending
\* Signal or a member of an unexpired Pod.
C30_AtMostOneLiveGroup ==
    /\ [](\A u \in Users : /\ Cardinality(LiveSignalsOf(u)) <= 1
                           /\ Cardinality(LivePodsOf(u)) <= 1)
    /\ [][Len(signals') > Len(signals)
            => \A u \in Range(signals'[Len(signals')].target_user_ids) :
                  LiveSignalsOf(u) = {} /\ LivePodsOf(u) = {}]_vars

\* No request is being served.
AllIdle == \A q \in Procs : proc[q].pc = "idle"

\* The unexpired pending Signals the user u created.
LiveSignalsBy(u) ==
    {s \in DOMAIN signals : /\ signals[s].status = "pending"
                            /\ ~Expired(signals[s])
                            /\ signals[s].creator_id = u}

\* C29: when check_for_signal(u) has returned new_signal with the Signal S
\* and the next request, with none under way, is check_for_signal(u) before S
\* expires, that call goes past the Pod query, returns has_signal with S and
\* creates no Signal; and calls of u that do not overlap never leave more than
\* one unexpired pending Signal created by u.
C29_RepeatedCheckReturnsTheSignal ==
    /\ [][\A p \in Procs, u \in Users :
             (/\ res.op = "check_for_signal"
              /\ res.status = "new_signal"
              /\ res.user_id = u
              /\ AllIdle
              /\ ~Expired(signals[res.signal])
              /\ CheckForSignalPod(p, u))
                 => proc'[p].pc = "cfs_signal"]_vars
    /\ [][\A p \in Procs :
             (/\ Leaves(p, "cfs_signal")
              /\ \A q \in Procs \ {p} : proc[q].pc = "idle"
              /\ signals # <<>>
              /\ signals[Len(signals)].creator_id = proc[p].user_id
              /\ signals[Len(signals)].status = "pending"
              /\ signals[Len(signals)].accepted_user_ids = <<>>
              /\ ~Expired(signals[Len(signals)]))
                 => /\ res'.status = "has_signal"
                    /\ res'.signal = Len(signals)
                    /\ signals' = signals]_vars
    /\ [](\A u \in Users : Cardinality(LiveSignalsBy(u)) <= 1)

====
